---------------------------- MODULE Spec2Model ----------------------------
(***************************************************************************)
(* A model of the energy proxy library of the winter-storm-uri demo        *)
(* (energy.py): the heating-degree model, the solar and wind production    *)
(* models and their composition calculate_renewable_production.            *)
(*                                                                         *)
(* Every function of the library is a pure function of its arguments, so   *)
(* each gets a specification of its own (SpecHdd, SpecSolar, SpecWind,     *)
(* SpecRenewable): Init draws the arguments of one call from bounded sets, *)
(* and the single action runs the whole function body, leaving its local   *)
(* variables in `locals` and its return value (or the exception it         *)
(* raises) in `ret`.  `args` is the caller's view of the argument objects  *)
(* after the call, so that a mutation of an argument would be visible.     *)
(*                                                                         *)
(* Numbers are exact rationals [n |-> numerator, d |-> denominator > 0],   *)
(* always in lowest terms; the rounding of IEEE doubles is not modelled.   *)
(* A labelled array (xr.DataArray) along one axis is                       *)
(*   [kind |-> "field", data |-> <<x1, ..., xn>>],                         *)
(* a Python float is [kind |-> "scalar", val |-> x] and None is            *)
(* [kind |-> "none"].                                                      *)
(***************************************************************************)
EXTENDS Integers, Sequences, FiniteSets, TLC

VARIABLES pc, args, locals, ret

vars == <<pc, args, locals, ret>>

(***************************************************************************)
(* Bounds of the model.                                                    *)
(***************************************************************************)
\* longest axis (number of sites / samples) of the arrays given to the
\* production models
MaxSites == 2

\* most samples on the time axis of a temperature array
MaxSamples == 3

(***************************************************************************)
(* Exact rational arithmetic.                                              *)
(***************************************************************************)
Abs(x) == IF x < 0 THEN -x ELSE x

RECURSIVE Gcd(_, _)
Gcd(a, b) == IF b = 0 THEN a ELSE Gcd(b, a % b)

\* the rational n/d (d # 0) in lowest terms with a positive denominator
Rat(n, d) ==
    LET g == Gcd(Abs(n), Abs(d))
        s == IF d < 0 THEN -1 ELSE 1
    IN  [n |-> s * (n \div g), d |-> s * (d \div g)]

Int2Rat(i) == [n |-> i, d |-> 1]

RAdd(x, y) ==
    LET g == Gcd(x.d, y.d)
    IN  Rat(x.n * (y.d \div g) + y.n * (x.d \div g), (x.d \div g) * y.d)

RNeg(x) == [n |-> -x.n, d |-> x.d]

RSub(x, y) == RAdd(x, RNeg(y))

\* cross-cancelling first keeps the products small
RMul(x, y) ==
    LET g1 == Gcd(Abs(x.n), y.d)
        g2 == Gcd(Abs(y.n), x.d)
    IN  IF x.n = 0 \/ y.n = 0 THEN Int2Rat(0)
        ELSE [n |-> (x.n \div g1) * (y.n \div g2),
              d |-> (x.d \div g2) * (y.d \div g1)]

\* y # 0
RInv(y) == IF y.n < 0 THEN [n |-> -y.d, d |-> -y.n] ELSE [n |-> y.d, d |-> y.n]

RDiv(x, y) == RMul(x, RInv(y))

\* a/b < c/d for b, d > 0, by the continued-fraction expansion: no product
\* is formed, so no intermediate value is larger than the operands
RECURSIVE FracLess(_, _, _, _)
FracLess(a, b, c, d) ==
    LET qa == a \div b
        qc == c \div d
        ra == a % b
        rc == c % d
    IN  IF qa # qc THEN qa < qc
        ELSE IF rc = 0 THEN FALSE
        ELSE IF ra = 0 THEN TRUE
        ELSE FracLess(d, rc, b, ra)

RLt(x, y) == FracLess(x.n, x.d, y.n, y.d)

RLe(x, y) == ~RLt(y, x)

RGe(x, y) == ~RLt(x, y)

\* the integer root of a perfect square
ISqrt(n) == CHOOSE r \in 0..n : r * r = n

\* the root of a rational whose numerator and denominator are perfect squares
RSqrt(x) == [n |-> ISqrt(x.n), d |-> ISqrt(x.d)]

Zero == Int2Rat(0)

One == Int2Rat(1)

(***************************************************************************)
(* Scalars, arrays and broadcasting.                                       *)
(***************************************************************************)
None == [kind |-> "none"]

Scalar(x) == [kind |-> "scalar", val |-> x]

Field(s) == [kind |-> "field", data |-> s]

IsNone(a) == a.kind = "none"

\* length of the axis two operands broadcast to (0: both are scalars)
BLen(a, b) ==
    IF a.kind = "field" THEN Len(a.data)
    ELSE IF b.kind = "field" THEN Len(b.data)
    ELSE 0

\* element i of an operand under broadcasting
At(a, i) == IF a.kind = "field" THEN a.data[i] ELSE a.val

\* the elementwise arithmetic of scalar-or-array operands
FAdd(a, b) ==
    IF BLen(a, b) = 0 THEN Scalar(RAdd(a.val, b.val))
    ELSE Field([i \in 1..BLen(a, b) |-> RAdd(At(a, i), At(b, i))])

FSub(a, b) ==
    IF BLen(a, b) = 0 THEN Scalar(RSub(a.val, b.val))
    ELSE Field([i \in 1..BLen(a, b) |-> RSub(At(a, i), At(b, i))])

FMul(a, b) ==
    IF BLen(a, b) = 0 THEN Scalar(RMul(a.val, b.val))
    ELSE Field([i \in 1..BLen(a, b) |-> RMul(At(a, i), At(b, i))])

FDiv(a, b) ==
    IF BLen(a, b) = 0 THEN Scalar(RDiv(a.val, b.val))
    ELSE Field([i \in 1..BLen(a, b) |-> RDiv(At(a, i), At(b, i))])

\* a ** 2 and a ** 3
FSquare(a) == FMul(a, a)

FCube(a) == FMul(a, FMul(a, a))

\* np.sqrt of an array
FSqrt(a) == Field([i \in 1..Len(a.data) |-> RSqrt(a.data[i])])

\* xr.where(cond, x, y): x where the boolean array cond holds, else y
Where(cond, x, y) ==
    Field([i \in 1..Len(cond) |-> IF cond[i] THEN At(x, i) ELSE At(y, i)])


(***************************************************************************)
(* calculate_wind_speed and calculate_wind_production.                     *)
(***************************************************************************)
\* cut-in, rated and cut-out wind speed of the power curve, m/s
CutInSpeed == 3

RatedSpeed == 12

CutOutSpeed == 25

\* standard air density at sea level and 15 C, kg/m3
rho_standard == Rat(1225, 1000)

\* specific gas constant of dry air, J/(kg K)
R_specific == Rat(28705, 100)

calculate_wind_speed(u, v) == FSqrt(FAdd(FSquare(u), FSquare(v)))

\* the power curve: production before the air density correction
PowerCurveNoCutOut(wind_speed, turbine_capacity_mw) ==
    LET w == wind_speed.data
        n == Len(w)
        p0 == Field([i \in 1..n |-> Zero])
        p1 == Where([i \in 1..n |-> RLt(w[i], Int2Rat(CutInSpeed))],
                    Scalar(Zero), p0)
        ramp == FMul(turbine_capacity_mw,
                     FCube(FDiv(FSub(wind_speed, Scalar(Int2Rat(CutInSpeed))),
                                Scalar(Int2Rat(RatedSpeed - CutInSpeed)))))
        p2 == Where([i \in 1..n |-> RGe(w[i], Int2Rat(CutInSpeed))
                                    /\ RLt(w[i], Int2Rat(RatedSpeed))],
                    ramp, p1)
    IN  Where([i \in 1..n |-> RGe(w[i], Int2Rat(RatedSpeed))],
              turbine_capacity_mw, p2)

\* the cubic ramp is not capped at the rated speed
PowerCurveNoRated(wind_speed, turbine_capacity_mw) ==
    LET w == wind_speed.data
        n == Len(w)
        ramp == FMul(turbine_capacity_mw,
                     FCube(FDiv(FSub(wind_speed, Scalar(Int2Rat(CutInSpeed))),
                                Scalar(Int2Rat(RatedSpeed - CutInSpeed)))))
    IN  Where([i \in 1..n |-> RGe(w[i], Int2Rat(CutInSpeed))
                              /\ RLt(w[i], Int2Rat(CutOutSpeed))],
              ramp, Field([i \in 1..n |-> Zero]))

\* the cubic ramp is not scaled by the capacity
PowerCurveUnscaledRamp(wind_speed, turbine_capacity_mw) ==
    LET w == wind_speed.data
        n == Len(w)
        p0 == Field([i \in 1..n |-> Zero])
        ramp == FCube(FDiv(FSub(wind_speed, Scalar(Int2Rat(CutInSpeed))),
                           Scalar(Int2Rat(RatedSpeed - CutInSpeed))))
        p2 == Where([i \in 1..n |-> RGe(w[i], Int2Rat(CutInSpeed))
                                    /\ RLt(w[i], Int2Rat(RatedSpeed))],
                    ramp, p0)
        p3 == Where([i \in 1..n |-> RGe(w[i], Int2Rat(RatedSpeed))
                                    /\ RLt(w[i], Int2Rat(CutOutSpeed))],
                    turbine_capacity_mw, p2)
    IN  p3

PowerCurve(wind_speed, turbine_capacity_mw) ==
    LET w == wind_speed.data
        n == Len(w)
        \* production = xr.zeros_like(wind_speed)
        p0 == Field([i \in 1..n |-> Zero])
        \* below cut-in
        p1 == Where([i \in 1..n |-> RLt(w[i], Int2Rat(CutInSpeed))],
                    Scalar(Zero), p0)
        \* between cut-in and rated: cubic
        cubic_region == [i \in 1..n |-> RGe(w[i], Int2Rat(CutInSpeed))
                                        /\ RLt(w[i], Int2Rat(RatedSpeed))]
        ramp == FMul(turbine_capacity_mw,
                     FCube(FDiv(FSub(wind_speed, Scalar(Int2Rat(CutInSpeed))),
                                Scalar(Int2Rat(RatedSpeed - CutInSpeed)))))
        p2 == Where(cubic_region, ramp, p1)
        \* between rated and cut-out: rated power
        rated_region == [i \in 1..n |-> RGe(w[i], Int2Rat(RatedSpeed))
                                        /\ RLt(w[i], Int2Rat(CutOutSpeed))]
        p3 == Where(rated_region, turbine_capacity_mw, p2)
        \* above cut-out
    IN  Where([i \in 1..n |-> RGe(w[i], Int2Rat(CutOutSpeed))],
              Scalar(Zero), p3)

\* rho_actual / rho_standard with rho_actual = sp / (R_specific * t2)
DensityCorrection(sp, t2) ==
    LET rho_actual == FDiv(sp, FMul(Scalar(R_specific), t2))
    IN  FDiv(rho_actual, Scalar(rho_standard))

\* `if sp is not None and t2 is not None`
DensityGate(sp, t2) == ~IsNone(sp) /\ ~IsNone(t2)

\* a missing sp or t2 is replaced by a standard value and the correction
\* applied whenever one of the two is given
WindFrameStdFill(u100, v100, sp, t2, turbine_capacity_mw) ==
    LET wind_speed == calculate_wind_speed(u100, v100)
        curve == PowerCurve(wind_speed, turbine_capacity_mw)
        corrected == ~IsNone(sp) \/ ~IsNone(t2)
        sp1 == IF IsNone(sp) THEN Scalar(Int2Rat(100000)) ELSE sp
        t21 == IF IsNone(t2) THEN Scalar(Int2Rat(300)) ELSE t2
    IN  [wind_speed |-> wind_speed,
         power_curve |-> curve,
         corrected |-> corrected,
         production |-> IF corrected
                        THEN FMul(curve, DensityCorrection(sp1, t21))
                        ELSE curve]

\* the local variables of calculate_wind_production when it returns;
\* `production` is the value returned
WindFrame(u100, v100, sp, t2, turbine_capacity_mw) ==
    LET wind_speed == calculate_wind_speed(u100, v100)
        curve == PowerCurve(wind_speed, turbine_capacity_mw)
        corrected == DensityGate(sp, t2)
    IN  [wind_speed |-> wind_speed,
         power_curve |-> curve,
         corrected |-> corrected,
         production |-> IF corrected
                        THEN FMul(curve, DensityCorrection(sp, t2))
                        ELSE curve]

calculate_wind_production(u100, v100, sp, t2, turbine_capacity_mw) ==
    WindFrame(u100, v100, sp, t2, turbine_capacity_mw).production


(***************************************************************************)
(* The calls of calculate_wind_production.                                 *)
(***************************************************************************)
\* arrays of length n over a set of values
Arrays(S, n) == {Field(s) : s \in [1..n -> S]}

\* a scalar or an array of length n
ScalarOrArray(S, T, n) == {Scalar(x) : x \in S} \cup Arrays(T, n)

\* wind components <<u, v>> in m/s; their speeds are
\* 0, 3, 7.5, 12, 15, 25 and 30 m/s
WindComponents ==
    { <<Zero, Zero>>,
      <<Rat(12, 5), Rat(-9, 5)>>,
      <<Rat(9, 2), Int2Rat(6)>>,
      <<Zero, Int2Rat(-12)>>,
      <<Int2Rat(-9), Int2Rat(12)>>,
      <<Int2Rat(15), Int2Rat(20)>>,
      <<Int2Rat(-18), Int2Rat(-24)>> }

\* surface pressures, Pa
Pressures == {Int2Rat(95000), Int2Rat(100000)}

\* 2 m temperatures, K
WindTemperatures == {Int2Rat(280)}

\* installed capacities, MW
ScalarCapacities == {Int2Rat(-1), One, Int2Rat(2)}

SiteCapacities == {Rat(1, 2), Int2Rat(2)}

\* the arguments of one call on arrays of length n
WindCall(uv, sp, t2, c) ==
    [fn |-> "calculate_wind_production",
     u100 |-> Field([i \in DOMAIN uv |-> uv[i][1]]),
     v100 |-> Field([i \in DOMAIN uv |-> uv[i][2]]),
     sp |-> sp, t2 |-> t2, turbine_capacity_mw |-> c]

NoLocals == [fn |-> "none"]

NoValue == [kind |-> "none"]

InitWind ==
    /\ pc = "ready"
    /\ \E n \in 1..MaxSites :
         \E uv \in [1..n -> WindComponents],
            sp \in {None} \cup Arrays(Pressures, n),
            t2 \in {None} \cup Arrays(WindTemperatures, n),
            c \in ScalarOrArray(ScalarCapacities, SiteCapacities, n) :
           args = WindCall(uv, sp, t2, c)
    /\ locals = NoLocals
    /\ ret = NoValue

CallWindProduction ==
    /\ pc = "ready"
    /\ args.fn = "calculate_wind_production"
    /\ LET f == WindFrame(args.u100, args.v100, args.sp, args.t2,
                          args.turbine_capacity_mw)
       IN  /\ locals' = f
           /\ ret' = f.production
    /\ pc' = "returned"
    /\ UNCHANGED args

NextWind == CallWindProduction

SpecWind == InitWind /\ [][NextWind]_vars


(***************************************************************************)
(* Properties of calculate_wind_production.                                *)
(***************************************************************************)
WindReturned == pc = "returned" /\ args.fn = "calculate_wind_production"

WindSites == 1..Len(args.u100.data)

\* the wind speed at site i as the claims define it: the non-negative w
\* with w^2 = u^2 + v^2
IsSpeedAt(w, i) ==
    /\ RGe(w, Zero)
    /\ RMul(w, w) = RAdd(RMul(args.u100.data[i], args.u100.data[i]),
                         RMul(args.v100.data[i], args.v100.data[i]))

\* the four branches of the documented power curve
Branch(b, w) ==
    CASE b = 1 -> RLt(w, Int2Rat(3))
      [] b = 2 -> RLe(Int2Rat(3), w) /\ RLt(w, Int2Rat(12))
      [] b = 3 -> RLe(Int2Rat(12), w) /\ RLt(w, Int2Rat(25))
      [] b = 4 -> RLe(Int2Rat(25), w)

\* capacity * ((w - 3) / 9)^3
Ramp(w, c) ==
    LET x == RDiv(RSub(w, Int2Rat(3)), Int2Rat(9))
    IN  RMul(c, RMul(x, RMul(x, x)))

DocumentedCurve(w, c) ==
    CASE Branch(1, w) -> Zero
      [] Branch(2, w) -> Ramp(w, c)
      [] Branch(3, w) -> c
      [] Branch(4, w) -> Zero

\* (sp / (287.05 * t2)) / 1.225 at site i
DocumentedFactor(i) ==
    RDiv(RDiv(args.sp.data[i], RMul(Rat(28705, 100), args.t2.data[i])),
         Rat(1225, 1000))

BothSupplied == ~IsNone(args.sp) /\ ~IsNone(args.t2)

\* C4: without density correction the production at every site is the
\* documented piecewise power curve of the wind speed w = sqrt(u^2 + v^2):
\* exactly one of the four branches holds of w, the boundary speeds 3, 12
\* and 25 fall in the higher branch, the ramp is 0 at w = 3 and the capacity
\* at w = 12, and with capacity 2.0 the speeds 3, 7.5, 12 and 30 give
\* 0, 0.25, 2 and 0.
C4_PowerCurve ==
    (WindReturned /\ ~BothSupplied) =>
        \A i \in WindSites :
            LET w == locals.wind_speed.data[i]
                c == At(args.turbine_capacity_mw, i)
            IN  /\ IsSpeedAt(w, i)
                /\ Cardinality({b \in 1..4 : Branch(b, w)}) = 1
                /\ Branch(2, Int2Rat(3)) /\ Branch(3, Int2Rat(12))
                /\ Branch(4, Int2Rat(25))
                /\ Ramp(Int2Rat(3), c) = Zero /\ Ramp(Int2Rat(12), c) = c
                /\ ret.data[i] = DocumentedCurve(w, c)
                /\ c = Int2Rat(2) =>
                      /\ w = Int2Rat(3) => ret.data[i] = Zero
                      /\ w = Rat(15, 2) => ret.data[i] = Rat(1, 4)
                      /\ w = Int2Rat(12) => ret.data[i] = Int2Rat(2)
                      /\ w = Int2Rat(30) => ret.data[i] = Zero

\* an uncorrected call with scalar capacity 2.0 on the speeds 7.5 (ramp)
\* and 25 (cut-out) has returned 0.25 and 0
C4_Witness ==
    /\ WindReturned /\ ~BothSupplied
    /\ args.turbine_capacity_mw = Scalar(Int2Rat(2))
    /\ Len(ret.data) = 2
    /\ locals.wind_speed.data = <<Rat(15, 2), Int2Rat(25)>>
    /\ ret.data = <<Rat(1, 4), Zero>>

\* C5: the air density correction is applied if and only if both sp and
\* t2 are supplied: with both, the production at every site is the power
\* curve times (sp / (287.05 * t2)) / 1.225; with one or none it is the
\* power curve itself; the call returns in every case.
C5_DensityBothOrNeither ==
    (pc # "ready" /\ args.fn = "calculate_wind_production") =>
        /\ pc = "returned"
        /\ \A i \in WindSites :
              LET w == locals.wind_speed.data[i]
                  c == At(args.turbine_capacity_mw, i)
              IN  /\ IsSpeedAt(w, i)
                  /\ ret.data[i] =
                        IF BothSupplied
                        THEN RMul(DocumentedCurve(w, c), DocumentedFactor(i))
                        ELSE DocumentedCurve(w, c)

\* a call with sp but without t2 has returned a non-zero production
C5_Witness ==
    /\ WindReturned
    /\ ~IsNone(args.sp) /\ IsNone(args.t2)
    /\ \E i \in WindSites : ret.data[i] # Zero

\* the cap the claim puts on the production at site i
CapacityTimesFactor(i) ==
    IF BothSupplied
    THEN RMul(At(args.turbine_capacity_mw, i), DocumentedFactor(i))
    ELSE At(args.turbine_capacity_mw, i)

\* C6 as stated: for all inputs the production is >= 0 and at most the
\* capacity times the correction factor, and it is the uncorrected curve
\* when sp and t2 are not supplied.
C6_Original ==
    WindReturned =>
        \A i \in WindSites :
            /\ RGe(ret.data[i], Zero)
            /\ RLe(ret.data[i], CapacityTimesFactor(i))
            /\ (IsNone(args.sp) /\ IsNone(args.t2)) =>
                  ret.data[i] = DocumentedCurve(locals.wind_speed.data[i],
                                                At(args.turbine_capacity_mw, i))

\* the physical inputs of site i: a non-negative capacity and, where
\* supplied, a positive pressure and absolute temperature
PhysicalAt(i) ==
    /\ RGe(At(args.turbine_capacity_mw, i), Zero)
    /\ ~IsNone(args.sp) => RLt(Zero, args.sp.data[i])
    /\ ~IsNone(args.t2) => RLt(Zero, args.t2.data[i])

\* C6 as amended: at every site whose capacity is >= 0 (and whose pressure
\* and temperature, where supplied, are > 0) the production is >= 0 and at
\* most the capacity times the correction factor; with no sp and t2 the
\* production is the uncorrected curve, whatever the capacity.
C6_Bounded ==
    WindReturned =>
        \A i \in WindSites :
            /\ IsSpeedAt(locals.wind_speed.data[i], i)
            /\ PhysicalAt(i) =>
                  /\ RGe(ret.data[i], Zero)
                  /\ RLe(ret.data[i], CapacityTimesFactor(i))
            /\ (IsNone(args.sp) /\ IsNone(args.t2)) =>
                  ret.data[i] = DocumentedCurve(locals.wind_speed.data[i],
                                                At(args.turbine_capacity_mw, i))

\* a corrected call with a per-site capacity has returned, at a site at
\* rated speed, exactly the capacity times a factor above 1
C6_Witness ==
    /\ WindReturned /\ BothSupplied
    /\ args.turbine_capacity_mw.kind = "field"
    /\ \E i \in WindSites :
          /\ PhysicalAt(i)
          /\ RLt(One, DocumentedFactor(i))
          /\ Branch(3, locals.wind_speed.data[i])
          /\ ret.data[i] = CapacityTimesFactor(i)
          /\ RLt(At(args.turbine_capacity_mw, i), ret.data[i])

(***************************************************************************)
(* calculate_solar_production.                                             *)
(***************************************************************************)
\* seconds over which ssrd is accumulated
SecondsPerHour == 3600

\* rated irradiance, W/m2
RatedIrradiance == 1000

\* reference temperature of the rated efficiency, C
ReferenceCelsius == 25

\* 0 C in K
KelvinOffset == Rat(27315, 100)

DefaultPanelCapacity == Scalar(One)

DefaultEfficiencyRef == Scalar(Rat(20, 100))

DefaultTempCoeff == Scalar(Rat(-4, 1000))

\* the clip is left out
NoClip(a) == a

\* production.clip(min=0)
ClipMin0(a) ==
    Field([i \in 1..Len(a.data) |->
             IF RLt(a.data[i], Zero) THEN Zero ELSE a.data[i]])

\* the derating is computed from the temperature in K instead of C
SolarFrameKelvin(ssrd, t2, panel_capacity_mw, efficiency_ref, temp_coeff) ==
    LET irradiance == FDiv(ssrd, Scalar(Int2Rat(SecondsPerHour)))
        temp_celsius == FSub(t2, Scalar(KelvinOffset))
        temp_correction ==
            FAdd(Scalar(One),
                 FMul(temp_coeff,
                      FSub(t2, Scalar(Int2Rat(ReferenceCelsius)))))
        production ==
            FMul(FMul(FMul(panel_capacity_mw,
                           FDiv(irradiance, Scalar(Int2Rat(RatedIrradiance)))),
                      efficiency_ref),
                 temp_correction)
    IN  [irradiance |-> irradiance,
         temp_celsius |-> temp_celsius,
         temp_correction |-> temp_correction,
         production |-> production,
         return |-> ClipMin0(production)]

\* the local variables of calculate_solar_production when it returns
SolarFrame(ssrd, t2, panel_capacity_mw, efficiency_ref, temp_coeff) ==
    LET irradiance == FDiv(ssrd, Scalar(Int2Rat(SecondsPerHour)))
        temp_celsius == FSub(t2, Scalar(KelvinOffset))
        temp_correction ==
            FAdd(Scalar(One),
                 FMul(temp_coeff,
                      FSub(temp_celsius, Scalar(Int2Rat(ReferenceCelsius)))))
        production ==
            FMul(FMul(FMul(panel_capacity_mw,
                           FDiv(irradiance, Scalar(Int2Rat(RatedIrradiance)))),
                      efficiency_ref),
                 temp_correction)
    IN  [irradiance |-> irradiance,
         temp_celsius |-> temp_celsius,
         temp_correction |-> temp_correction,
         production |-> production,
         return |-> ClipMin0(production)]

calculate_solar_production(ssrd, t2, panel_capacity_mw, efficiency_ref, temp_coeff) ==
    SolarFrame(ssrd, t2, panel_capacity_mw, efficiency_ref, temp_coeff).return

(***************************************************************************)
(* The calls of calculate_solar_production.                                *)
(***************************************************************************)
\* hourly accumulated radiation, J/m2
Radiations == {Zero, Int2Rat(3600000)}

\* 2 m temperatures, K: 25 C, and one hot enough for a negative derating
SolarTemperatures == {Rat(29815, 100), Int2Rat(600)}

PanelScalars == {Int2Rat(-1), One}

Efficiencies == {Rat(15, 100), Rat(20, 100)}

TempCoeffs == {Rat(-4, 1000), Rat(-5, 1000)}

SolarCall(ssrd, t2, c, e, k) ==
    [fn |-> "calculate_solar_production",
     ssrd |-> ssrd, t2 |-> t2, panel_capacity_mw |-> c,
     efficiency_ref |-> e, temp_coeff |-> k]

InitSolar ==
    /\ pc = "ready"
    /\ \E n \in 1..MaxSites :
         \E ssrd \in Arrays(Radiations, n),
            t2 \in Arrays(SolarTemperatures, n),
            c \in ScalarOrArray(PanelScalars, SiteCapacities, n),
            e \in {DefaultEfficiencyRef} \cup Arrays(Efficiencies, n),
            k \in {DefaultTempCoeff} \cup Arrays(TempCoeffs, n) :
           args = SolarCall(ssrd, t2, c, e, k)
    /\ locals = NoLocals
    /\ ret = NoValue

CallSolarProduction ==
    /\ pc = "ready"
    /\ args.fn = "calculate_solar_production"
    /\ LET f == SolarFrame(args.ssrd, args.t2, args.panel_capacity_mw,
                           args.efficiency_ref, args.temp_coeff)
       IN  /\ locals' = f
           /\ ret' = f.return
    /\ pc' = "returned"
    /\ UNCHANGED args

NextSolar == CallSolarProduction

SpecSolar == InitSolar /\ [][NextSolar]_vars


(***************************************************************************)
(* Properties of calculate_solar_production.                               *)
(***************************************************************************)
SolarReturned == pc = "returned" /\ args.fn = "calculate_solar_production"

SolarSites == 1..Len(args.ssrd.data)

\* the documented steps at site i
DocIrradiance(i) == RDiv(args.ssrd.data[i], Int2Rat(3600))

DocCelsius(i) == RSub(args.t2.data[i], Rat(27315, 100))

DocDerating(i) ==
    RAdd(One, RMul(At(args.temp_coeff, i), RSub(DocCelsius(i), Int2Rat(25))))

\* panel_capacity_mw * (irradiance / 1000) * reference_efficiency * derating
DocUnclipped(i) ==
    RMul(RMul(RMul(At(args.panel_capacity_mw, i),
                   RDiv(DocIrradiance(i), Int2Rat(1000))),
              At(args.efficiency_ref, i)),
         DocDerating(i))

\* C7: before clipping, the production at every site is
\* capacity * ((ssrd / 3600) / 1000) * efficiency * (1 + coeff * ((t2 -
\* 273.15) - 25)), each step holding the documented intermediate value; with
\* capacity 1.0, ssrd 3,600,000 J/m2, t2 298.15 K and efficiency 0.20 the
\* value returned is exactly 0.20 MW.
C7_SolarFormula ==
    SolarReturned =>
        \A i \in SolarSites :
            /\ locals.irradiance.data[i] = DocIrradiance(i)
            /\ locals.temp_celsius.data[i] = DocCelsius(i)
            /\ locals.temp_correction.data[i] = DocDerating(i)
            /\ locals.production.data[i] = DocUnclipped(i)
            /\ ( /\ At(args.panel_capacity_mw, i) = One
                 /\ args.ssrd.data[i] = Int2Rat(3600000)
                 /\ args.t2.data[i] = Rat(29815, 100)
                 /\ At(args.efficiency_ref, i) = Rat(1, 5) ) =>
                  /\ locals.production.data[i] = Rat(1, 5)
                  /\ ret.data[i] = Rat(1, 5)

\* the documented example has been computed with the default scalars
C7_Witness ==
    /\ SolarReturned
    /\ args.panel_capacity_mw = Scalar(One)
    /\ args.efficiency_ref = Scalar(Rat(1, 5))
    /\ \E i \in SolarSites :
          /\ args.ssrd.data[i] = Int2Rat(3600000)
          /\ args.t2.data[i] = Rat(29815, 100)
          /\ ret.data[i] = Rat(1, 5)

\* C8: the production returned is >= 0 at every site, for every capacity,
\* efficiency and temperature coefficient: it is exactly 0 where the
\* unclipped formula is negative and the unclipped value where that is >= 0.
C8_SolarClipped ==
    SolarReturned =>
        \A i \in SolarSites :
            /\ RGe(ret.data[i], Zero)
            /\ ret.data[i] =
                  IF RLt(DocUnclipped(i), Zero) THEN Zero ELSE DocUnclipped(i)

\* one call has returned 0 at a site whose derating factor is negative
\* under a positive capacity, and a positive production unchanged at
\* another site
C8_Witness ==
    /\ SolarReturned
    /\ \E i, j \in SolarSites :
          /\ RLt(DocDerating(i), Zero)
          /\ RLt(Zero, At(args.panel_capacity_mw, i))
          /\ RLt(DocUnclipped(i), Zero)
          /\ ret.data[i] = Zero
          /\ RLt(Zero, DocUnclipped(j))
          /\ ret.data[j] = DocUnclipped(j)


(***************************************************************************)
(* calculate_renewable_production.  A dataset (xr.Dataset) maps variable   *)
(* names to data arrays [values |-> array, attrs |-> set of <<key, text>>].*)
(***************************************************************************)
DataArray(values, attrs) == [values |-> values, attrs |-> attrs]

\* the attributes of the result of array arithmetic
NoAttrs == {}

SolarAttrs ==
    { <<"long_name", "Solar power production">>,
      <<"units", "MW">>,
      <<"description",
        "Estimated solar power production per MW installed capacity">> }

WindAttrs ==
    { <<"long_name", "Wind power production">>,
      <<"units", "MW">>,
      <<"description", "Estimated wind power production per 2MW turbine">> }

\* capacities the composition fixes, MW
RenewablePanelCapacity == Scalar(One)

RenewableTurbineCapacity == Scalar(Int2Rat(2))

\* ds_out[name].attrs = attrs: the array object held by ds_out is updated
SetAttrs(ds_out, name, attrs) ==
    [ds_out EXCEPT ![name] = DataArray(ds_out[name].values, attrs)]

\* the wind production is computed without sp and t2
RenewableNoDensity(ds) ==
    LET solar_prod == calculate_solar_production(ds.ssrd.values, ds.t2.values,
                          RenewablePanelCapacity, DefaultEfficiencyRef,
                          DefaultTempCoeff)
        wind_prod == calculate_wind_production(ds.u100.values, ds.v100.values,
                         None, None, RenewableTurbineCapacity)
        ds_out == [solar_production |-> DataArray(solar_prod, NoAttrs),
                   wind_production |-> DataArray(wind_prod, NoAttrs)]
    IN  [ds |-> ds,
         return |-> SetAttrs(SetAttrs(ds_out, "solar_production", SolarAttrs),
                             "wind_production", WindAttrs)]

\* the two variables are added to the dataset passed in, which is returned
RenewableInPlace(ds) ==
    LET solar_prod == calculate_solar_production(ds.ssrd.values, ds.t2.values,
                          RenewablePanelCapacity, DefaultEfficiencyRef,
                          DefaultTempCoeff)
        wind_prod == calculate_wind_production(ds.u100.values, ds.v100.values,
                         ds.sp.values, ds.t2.values, RenewableTurbineCapacity)
        ds_out == [solar_production |-> DataArray(solar_prod, SolarAttrs),
                   wind_production |-> DataArray(wind_prod, WindAttrs)] @@ ds
    IN  [ds |-> ds_out, return |-> ds_out]

\* the call's effect: the dataset passed in as the caller sees it afterwards,
\* and the dataset returned
calculate_renewable_production(ds) ==
    LET solar_prod == calculate_solar_production(ds.ssrd.values, ds.t2.values,
                          RenewablePanelCapacity, DefaultEfficiencyRef,
                          DefaultTempCoeff)
        wind_prod == calculate_wind_production(ds.u100.values, ds.v100.values,
                         ds.sp.values, ds.t2.values, RenewableTurbineCapacity)
        \* ds_out = xr.Dataset(), then the two assignments
        ds_out == [solar_production |-> DataArray(solar_prod, NoAttrs),
                   wind_production |-> DataArray(wind_prod, NoAttrs)]
    IN  [ds |-> ds,
         return |-> SetAttrs(SetAttrs(ds_out, "solar_production", SolarAttrs),
                             "wind_production", WindAttrs)]

(***************************************************************************)
(* The calls of calculate_renewable_production.                            *)
(***************************************************************************)
\* one grid cell of the dataset: <<ssrd, t2, <<u100, v100>>, sp>>
DatasetTemperatures == {Int2Rat(280), Int2Rat(300)}

\* wind components of the cells; their speeds are 7.5, 15 and 30 m/s
DatasetWinds ==
    { <<Rat(9, 2), Int2Rat(6)>>,
      <<Int2Rat(-9), Int2Rat(12)>>,
      <<Int2Rat(-18), Int2Rat(-24)>> }

GridCells == Radiations \X DatasetTemperatures \X DatasetWinds \X Pressures

\* the dataset of the cells c, with the metadata of its source
Era5(c) ==
    [ssrd |-> DataArray(Field([i \in DOMAIN c |-> c[i][1]]),
                        {<<"units", "J m**-2">>}),
     t2 |-> DataArray(Field([i \in DOMAIN c |-> c[i][2]]),
                      {<<"units", "K">>}),
     u100 |-> DataArray(Field([i \in DOMAIN c |-> c[i][3][1]]),
                        {<<"units", "m s**-1">>}),
     v100 |-> DataArray(Field([i \in DOMAIN c |-> c[i][3][2]]),
                        {<<"units", "m s**-1">>}),
     sp |-> DataArray(Field([i \in DOMAIN c |-> c[i][4]]),
                      {<<"units", "Pa">>})]

InitRenewable ==
    /\ pc = "ready"
    /\ \E n \in 1..MaxSites :
         \E c \in [1..n -> GridCells] :
           args = [fn |-> "calculate_renewable_production", ds |-> Era5(c)]
    /\ locals = NoLocals
    /\ ret = NoValue

CallRenewableProduction ==
    /\ pc = "ready"
    /\ args.fn = "calculate_renewable_production"
    /\ LET r == calculate_renewable_production(args.ds)
       IN  /\ args' = [args EXCEPT !.ds = r.ds]
           /\ ret' = r.return
    /\ pc' = "returned"
    /\ UNCHANGED locals

NextRenewable == CallRenewableProduction

SpecRenewable == InitRenewable /\ [][NextRenewable]_vars

(***************************************************************************)
(* Properties of calculate_renewable_production.                           *)
(***************************************************************************)
RenewableReturned ==
    pc = "returned" /\ args.fn = "calculate_renewable_production"

\* C9: the solar_production of the result is the solar model on (ssrd, t2)
\* with capacity 1.0 and the default efficiency and coefficient, and its
\* wind_production is the wind model on (u100, v100) with sp and t2 both
\* supplied and capacity 2.0.
C9_Composition ==
    RenewableReturned =>
        /\ ret.solar_production.values =
              calculate_solar_production(args.ds.ssrd.values, args.ds.t2.values,
                  Scalar(One), Scalar(Rat(1, 5)), Scalar(Rat(-1, 250)))
        /\ ret.wind_production.values =
              calculate_wind_production(args.ds.u100.values,
                  args.ds.v100.values, args.ds.sp.values, args.ds.t2.values,
                  Scalar(Int2Rat(2)))

\* a dataset of two cells has been composed: the wind production of a cell
\* at rated speed is 2 MW times a density factor other than 1, and the
\* solar production of a sunlit cell is positive
C9_Witness ==
    /\ RenewableReturned
    /\ Len(args.ds.ssrd.values.data) = 2
    /\ \E i, j \in 1..2 :
          /\ args.ds.u100.values.data[i] = Int2Rat(-9)
          /\ args.ds.v100.values.data[i] = Int2Rat(12)
          /\ ret.wind_production.values.data[i] # Int2Rat(2)
          /\ RLt(One, ret.wind_production.values.data[i])
          /\ RLt(Zero, ret.solar_production.values.data[j])

\* the keys of a set of attributes
AttrKeys(attrs) == {a[1] : a \in attrs}

NaN == [n |-> 0, d |-> 0]

IsNaN(x) == x.d = 0

\* `x < y` of two floats, NaN included
FloatLt(x, y) == ~IsNaN(x) /\ ~IsNaN(y) /\ RLt(x, y)

TimeArray(time, data, attrs) == [time |-> time, data |-> data, attrs |-> attrs]

Timestamp(y, m, d, h) == [y |-> y, m |-> m, d |-> d, h |-> h]

IsLeapYear(y) == (y % 4 = 0 /\ y % 100 # 0) \/ y % 400 = 0

DaysInMonth(y, m) ==
    IF m = 2 THEN (IF IsLeapYear(y) THEN 29 ELSE 28)
    ELSE IF m \in {4, 6, 9, 11} THEN 30
    ELSE 31

\* midnight of the next calendar day
NextDay(t) ==
    IF t.d < DaysInMonth(t.y, t.m) THEN Timestamp(t.y, t.m, t.d + 1, 0)
    ELSE IF t.m < 12 THEN Timestamp(t.y, t.m + 1, 1, 0)
    ELSE Timestamp(t.y + 1, 1, 1, 0)

\* the label of the bucket of t: the day's midnight ("1D"), the month's
\* last day ("1M") or the year's last day ("1Y")
BucketLabel(t, freq) ==
    CASE freq = "1D" -> Timestamp(t.y, t.m, t.d, 0)
      [] freq = "1M" -> Timestamp(t.y, t.m, DaysInMonth(t.y, t.m), 0)
      [] freq = "1Y" -> Timestamp(t.y, 12, 31, 0)

\* the labels of all buckets from the one of `from` to the one of `to`,
\* empty buckets included
RECURSIVE BucketLabels(_, _, _)
BucketLabels(from, to, freq) ==
    IF BucketLabel(from, freq) = BucketLabel(to, freq)
    THEN <<BucketLabel(from, freq)>>
    ELSE <<BucketLabel(from, freq)>>
         \o BucketLabels(NextDay(BucketLabel(from, freq)), to, freq)

\* the sum of the values of data at the (increasing) indices from i on that
\* lie in idx
RECURSIVE SumAt(_, _, _)
SumAt(data, idx, i) ==
    IF i > Len(data) THEN Zero
    ELSE IF i \in idx THEN RAdd(data[i], SumAt(data, idx, i + 1))
    ELSE SumAt(data, idx, i + 1)

\* the mean instead of the sum of a bucket
BucketMean(da, label, freq) ==
    LET idx == {i \in DOMAIN da.time : BucketLabel(da.time[i], freq) = label}
    IN  IF idx = {} THEN NaN
        ELSE RDiv(SumAt(da.data, idx, 1), Int2Rat(Cardinality(idx)))

\* the hours missing in a day are filled with the mean of the hours present
BucketSumGapFilled(da, label, freq) ==
    LET idx == {i \in DOMAIN da.time : BucketLabel(da.time[i], freq) = label}
    IN  IF idx = {} THEN NaN
        ELSE IF freq = "1D"
        THEN RMul(SumAt(da.data, idx, 1), Rat(24, Cardinality(idx)))
        ELSE SumAt(da.data, idx, 1)

\* the reduction of one bucket by .sum(): a bucket without a sample is
\* missing in the result
BucketSum(da, label, freq) ==
    LET idx == {i \in DOMAIN da.time : BucketLabel(da.time[i], freq) = label}
    IN  IF idx = {} THEN NaN ELSE SumAt(da.data, idx, 1)

\* da.resample(time=freq).sum(); the attributes are kept
ResampleSum(da, freq) ==
    LET labels == BucketLabels(da.time[1], da.time[Len(da.time)], freq)
    IN  TimeArray(labels,
                  [k \in DOMAIN labels |-> BucketSum(da, labels[k], freq)],
                  da.attrs)

\* attrs.update(new): the keys of new replace those of attrs
AttrsUpdate(attrs, new) ==
    {a \in attrs : \A b \in new : b[1] # a[1]} \cup new

DefaultBaseTemp == Int2Rat(18)

DefaultAggregation == "daily"

\* the heating demand is not clamped at zero
HourlyHddNoClamp(temperature_da, base_temp) ==
    TimeArray(temperature_da.time,
              [i \in DOMAIN temperature_da.data |->
                 IF IsNaN(temperature_da.data[i]) THEN Zero
                 ELSE RSub(base_temp, temperature_da.data[i])],
              { <<"units", "degree-hours">>,
                <<"long_name", "Heating Degree Hours">>,
                <<"base_temperature", base_temp>>,
                <<"description", base_temp>> })

\* xr.where(temperature_da < base_temp, base_temp - temperature_da, 0)
\* with the base attributes
HourlyHdd(temperature_da, base_temp) ==
    TimeArray(temperature_da.time,
              [i \in DOMAIN temperature_da.data |->
                 IF FloatLt(temperature_da.data[i], base_temp)
                 THEN RSub(base_temp, temperature_da.data[i])
                 ELSE Zero],
              { <<"units", "degree-hours">>,
                <<"long_name", "Heating Degree Hours">>,
                <<"base_temperature", base_temp>>,
                <<"description", base_temp>> })

\* the outcome of a call: the array returned, or the exception raised
Returned(value) == [raised |-> FALSE, value |-> value]

Raised(type, message) ==
    [raised |-> TRUE, value |-> [type |-> type, message |-> message]]

\* the text of the ValueError, in pieces
InvalidAggregationMessage(aggregation) ==
    << "Invalid aggregation: ", aggregation, ". Must be '", "hourly", "', '",
       "daily", "', '", "monthly", "', or '", "yearly", "'" >>

\* the aggregated result keeps the unit of the hourly values
AggregatedNoUnits(hourly_hdd, freq, units, aggregation, long_name) ==
    LET hdd == ResampleSum(hourly_hdd, freq)
    IN  TimeArray(hdd.time, hdd.data,
                  AttrsUpdate(hdd.attrs, { <<"aggregation", aggregation>>,
                                           <<"long_name", long_name>> }))

\* hourly_hdd.resample(time=freq).sum() followed by hdd.attrs.update(...)
Aggregated(hourly_hdd, freq, units, aggregation, long_name) ==
    LET hdd == ResampleSum(hourly_hdd, freq)
    IN  TimeArray(hdd.time, hdd.data,
                  AttrsUpdate(hdd.attrs, { <<"units", units>>,
                                           <<"aggregation", aggregation>>,
                                           <<"long_name", long_name>> }))

\* an aggregation that is not recognised falls back to the daily sum
HddDefaultsToDaily(temperature_da, base_temp, aggregation) ==
    LET hourly_hdd == HourlyHdd(temperature_da, base_temp)
    IN  IF aggregation = "hourly" THEN Returned(hourly_hdd)
        ELSE IF aggregation = "monthly" THEN
            Returned(Aggregated(hourly_hdd, "1M", "degree-hours/month",
                                "monthly sum of hourly HDD",
                                "Monthly Heating Degree Hours"))
        ELSE IF aggregation = "yearly" THEN
            Returned(Aggregated(hourly_hdd, "1Y", "degree-hours/year",
                                "yearly sum of hourly HDD",
                                "Yearly Heating Degree Hours"))
        ELSE
            Returned(Aggregated(hourly_hdd, "1D", "degree-hours/day",
                                "daily sum of hourly HDD",
                                "Daily Heating Degree Hours"))

calculate_heating_degree_days(temperature_da, base_temp, aggregation) ==
    LET hourly_hdd == HourlyHdd(temperature_da, base_temp)
    IN  IF aggregation = "hourly" THEN Returned(hourly_hdd)
        ELSE IF aggregation = "daily" THEN
            Returned(Aggregated(hourly_hdd, "1D", "degree-hours/day",
                                "daily sum of hourly HDD",
                                "Daily Heating Degree Hours"))
        ELSE IF aggregation = "monthly" THEN
            Returned(Aggregated(hourly_hdd, "1M", "degree-hours/month",
                                "monthly sum of hourly HDD",
                                "Monthly Heating Degree Hours"))
        ELSE IF aggregation = "yearly" THEN
            Returned(Aggregated(hourly_hdd, "1Y", "degree-hours/year",
                                "yearly sum of hourly HDD",
                                "Yearly Heating Degree Hours"))
        ELSE
            Raised("ValueError", InvalidAggregationMessage(aggregation))


(***************************************************************************)
(* The calls of calculate_heating_degree_days.                             *)
(***************************************************************************)
\* the hours a temperature array may hold a sample of, in time order: they
\* lie in two years, three months and four days, with days without any
\* sample between them
TimeGrid ==
    << Timestamp(2020, 12, 31, 22), Timestamp(2020, 12, 31, 23),
       Timestamp(2021, 1, 1, 0), Timestamp(2021, 1, 31, 23),
       Timestamp(2021, 2, 1, 0) >>

\* temperatures in C, and a missing value
Temperatures == {Rat(-11, 2), Int2Rat(18), Rat(43, 2), NaN}

BaseTemps == {DefaultBaseTemp, Int2Rat(20)}

Aggregations == {"hourly", "daily", "monthly", "yearly", "Daily", "bogus"}

\* the k-th smallest element of a set of numbers
KthOf(S, k) == CHOOSE i \in S : Cardinality({j \in S : j < i}) = k - 1

\* the array holding the values data at the hours of the grid picked by S
TemperatureArray(S, data) ==
    TimeArray([k \in 1..Cardinality(S) |-> TimeGrid[KthOf(S, k)]], data,
              {<<"units", "degC">>})

InitHdd ==
    /\ pc = "ready"
    /\ \E S \in SUBSET DOMAIN TimeGrid :
         /\ S # {}
         /\ Cardinality(S) <= MaxSamples
         /\ \E data \in [1..Cardinality(S) -> Temperatures],
               base_temp \in BaseTemps,
               aggregation \in Aggregations :
              args = [fn |-> "calculate_heating_degree_days",
                      temperature_da |-> TemperatureArray(S, data),
                      base_temp |-> base_temp,
                      aggregation |-> aggregation]
    /\ locals = NoLocals
    /\ ret = NoValue

CallHeatingDegreeDays ==
    /\ pc = "ready"
    /\ args.fn = "calculate_heating_degree_days"
    /\ LET r == calculate_heating_degree_days(args.temperature_da,
                     args.base_temp, args.aggregation)
       IN  /\ pc' = IF r.raised THEN "raised" ELSE "returned"
           /\ ret' = r.value
    /\ locals' = [hourly_hdd |-> HourlyHdd(args.temperature_da, args.base_temp)]
    /\ UNCHANGED args

NextHdd == CallHeatingDegreeDays

SpecHdd == InitHdd /\ [][NextHdd]_vars

(***************************************************************************)
(* Properties of calculate_heating_degree_days.                            *)
(***************************************************************************)
HddCalled == pc # "ready" /\ args.fn = "calculate_heating_degree_days"

HddReturned == pc = "returned" /\ args.fn = "calculate_heating_degree_days"

HddSamples == DOMAIN args.temperature_da.data

\* max(0, base_temp - t)
DocHeatingDegree(t) ==
    IF RLt(RSub(args.base_temp, t), Zero) THEN Zero ELSE RSub(args.base_temp, t)

\* C1: the hourly heating-degree value of every sample is >= 0; where the
\* temperature is a number it is max(0, base_temp - temperature), hence
\* exactly 0 wherever temperature >= base_temp; aggregation "hourly" returns
\* these values.
C1_HourlyHeatingDegree ==
    HddCalled =>
        /\ \A i \in HddSamples :
              LET t == args.temperature_da.data[i]
                  h == locals.hourly_hdd.data[i]
              IN  /\ ~IsNaN(h) /\ RGe(h, Zero)
                  /\ ~IsNaN(t) => h = DocHeatingDegree(t)
                  /\ (~IsNaN(t) /\ RGe(t, args.base_temp)) => h = Zero
        /\ (pc = "returned" /\ args.aggregation = "hourly") =>
              ret.data = locals.hourly_hdd.data

\* an hourly call has returned a positive value for a sample below the base
\* temperature and 0 for one above it
C1_Witness ==
    /\ HddReturned /\ args.aggregation = "hourly"
    /\ \E i, j \in HddSamples :
          /\ args.temperature_da.data[i] = Rat(-11, 2)
          /\ ret.data[i] = RSub(args.base_temp, Rat(-11, 2))
          /\ args.temperature_da.data[j] = Rat(43, 2)
          /\ ret.data[j] = Zero

\* whether the hour t falls in the calendar bucket labelled l
InCalendarBucket(t, l, aggregation) ==
    CASE aggregation = "daily" -> t.y = l.y /\ t.m = l.m /\ t.d = l.d
      [] aggregation = "monthly" -> t.y = l.y /\ t.m = l.m
      [] aggregation = "yearly" -> t.y = l.y

\* the sum of the values of a sequence
RECURSIVE SeqSum(_)
SeqSum(q) == IF q = <<>> THEN Zero ELSE RAdd(Head(q), SeqSum(Tail(q)))

\* the subsequence of data at the hours of time that fall in bucket l
RECURSIVE InBucket(_, _, _, _)
InBucket(time, data, l, aggregation) ==
    IF time = <<>> THEN <<>>
    ELSE (IF InCalendarBucket(Head(time), l, aggregation)
          THEN <<Head(data)>> ELSE <<>>)
         \o InBucket(Tail(time), Tail(data), l, aggregation)

\* C2: for daily, monthly and yearly aggregation, every sample falls in
\* exactly one bucket of the result, and the value of every bucket that
\* holds a sample is the sum of the hourly heating-degree values
\* (aggregation "hourly") of the samples whose hour falls in that calendar
\* day, month or year; aggregation "hourly" returns one value per sample
\* on the time axis of the input.
C2_ResampledSum ==
    HddReturned =>
        LET hourly == calculate_heating_degree_days(args.temperature_da,
                          args.base_temp, "hourly").value
        IN  IF args.aggregation = "hourly"
            THEN /\ ret.time = args.temperature_da.time
                 /\ ret.data = hourly.data
            ELSE /\ \A i \in HddSamples :
                       Cardinality({k \in DOMAIN ret.time :
                           InCalendarBucket(hourly.time[i], ret.time[k],
                                            args.aggregation)}) = 1
                 /\ \A k \in DOMAIN ret.time :
                       LET members == InBucket(hourly.time, hourly.data,
                                               ret.time[k], args.aggregation)
                       IN  members # <<>> => ret.data[k] = SeqSum(members)

\* a monthly call on 31 December 2020 22:00 and 23:00 and 1 January 2021
\* 00:00 has returned two buckets: the sum of the two (positive) values of
\* December, and the value of January
C2_Witness ==
    /\ HddReturned /\ args.aggregation = "monthly"
    /\ args.temperature_da.time =
          << Timestamp(2020, 12, 31, 22), Timestamp(2020, 12, 31, 23),
             Timestamp(2021, 1, 1, 0) >>
    /\ Len(ret.time) = 2
    /\ \A i \in 1..3 : RLt(Zero, locals.hourly_hdd.data[i])
    /\ ret.data[1] = RAdd(locals.hourly_hdd.data[1], locals.hourly_hdd.data[2])
    /\ ret.data[2] = locals.hourly_hdd.data[3]

LegalAggregations == {"hourly", "daily", "monthly", "yearly"}

\* the elements of a sequence
Range(q) == {q[i] : i \in DOMAIN q}

\* C3: a call with an aggregation other than hourly, daily, monthly and
\* yearly returns nothing and raises a ValueError whose message names the
\* value given and the four legal values; a call with one of the four
\* returns.
C3_InvalidAggregation ==
    HddCalled =>
        IF args.aggregation \in LegalAggregations
        THEN pc = "returned"
        ELSE /\ pc = "raised"
             /\ ret.type = "ValueError"
             /\ args.aggregation \in Range(ret.message)
             /\ LegalAggregations \subseteq Range(ret.message)

\* the call with aggregation "bogus" has raised
C3_Witness ==
    /\ pc = "raised"
    /\ args.fn = "calculate_heating_degree_days"
    /\ args.aggregation = "bogus"
    /\ ret.type = "ValueError"


\* the documented unit of every aggregation
DocUnits(aggregation) ==
    CASE aggregation = "hourly" -> "degree-hours"
      [] aggregation = "daily" -> "degree-hours/day"
      [] aggregation = "monthly" -> "degree-hours/month"
      [] aggregation = "yearly" -> "degree-hours/year"

\* C11: the result of every heating-degree call that returns carries
\* exactly one "units" attribute, and it is the unit of the aggregation:
\* degree-hours (hourly), degree-hours/day (daily), degree-hours/month
\* (monthly), degree-hours/year (yearly), whatever the input field.
C11_UnitsTrackAggregation ==
    HddReturned =>
        {a \in ret.attrs : a[1] = "units"} =
            { <<"units", DocUnits(args.aggregation)>> }

\* a monthly call has returned with the unit
\* degree-hours/month, its hourly values carrying degree-hours
C11_Witness ==
    /\ HddReturned /\ args.aggregation = "monthly"
    /\ <<"units", "degree-hours/month">> \in ret.attrs
    /\ <<"units", "degree-hours">> \in locals.hourly_hdd.attrs
    /\ <<"units", "degree-hours">> \notin ret.attrs

\* the sum of max(0, base_temp - t) over the samples of bucket l that hold a
\* temperature
RECURSIVE PresentDegrees(_, _, _, _)
PresentDegrees(time, data, l, aggregation) ==
    IF time = <<>> THEN Zero
    ELSE RAdd(IF InCalendarBucket(Head(time), l, aggregation) /\ ~IsNaN(Head(data))
              THEN DocHeatingDegree(Head(data)) ELSE Zero,
              PresentDegrees(Tail(time), Tail(data), l, aggregation))

\* the hours of the input that fall in the bucket labelled l
HoursIn(l, aggregation) ==
    {i \in HddSamples : InCalendarBucket(args.temperature_da.time[i], l, aggregation)}

\* the number of hours of the calendar bucket labelled l
HoursOfBucket(l, aggregation) ==
    CASE aggregation = "daily" -> 24
      [] aggregation = "monthly" -> 24 * DaysInMonth(l.y, l.m)
      [] aggregation = "yearly" -> IF IsLeapYear(l.y) THEN 24 * 366 ELSE 24 * 365

\* C16: a call with a legal aggregation never raises, and where hours are
\* missing inside a calendar bucket that holds a sample, the value of the
\* bucket is the sum of max(0, base_temp - T) over the samples that are
\* present with a temperature T: nothing is interpolated or substituted for
\* the missing hours.
C16_GapsOmitted ==
    (HddCalled /\ args.aggregation \in LegalAggregations) =>
        /\ pc = "returned"
        /\ args.aggregation # "hourly" =>
              \A k \in DOMAIN ret.time :
                 LET present == HoursIn(ret.time[k], args.aggregation)
                 IN  (present # {} /\ Cardinality(present)
                          < HoursOfBucket(ret.time[k], args.aggregation)) =>
                        ret.data[k] = PresentDegrees(args.temperature_da.time,
                                          args.temperature_da.data,
                                          ret.time[k], args.aggregation)

\* a daily call on 31 December 2020 holding only the hours 22:00 and 23:00,
\* both colder than the base temperature, has returned for that day the sum
\* of the two heating-degree values
C16_Witness ==
    /\ HddReturned /\ args.aggregation = "daily"
    /\ args.temperature_da.time =
          << Timestamp(2020, 12, 31, 22), Timestamp(2020, 12, 31, 23) >>
    /\ args.temperature_da.data = << Rat(-11, 2), Int2Rat(18) >>
    /\ args.base_temp = Int2Rat(20)
    /\ ret.time = << Timestamp(2020, 12, 31, 0) >>
    /\ ret.data = << Rat(55, 2) >>

\* C17: no call with a legal aggregation raises, and every calendar bucket
\* of a daily, monthly or yearly result for which the input holds no valid
\* hourly sample (no sample at all, or only samples without a temperature)
\* is missing in the result, not a number such as 0.
C17_EmptyBucketMissing ==
    (HddCalled /\ args.aggregation \in LegalAggregations) =>
        /\ pc = "returned"
        /\ args.aggregation # "hourly" =>
              \A k \in DOMAIN ret.time :
                 (\A i \in HoursIn(ret.time[k], args.aggregation) :
                     IsNaN(args.temperature_da.data[i]))
                 => IsNaN(ret.data[k])

(***************************************************************************)
(* The per-site cells of the production notebook: the production of every  *)
(* generator site from the weather at the site and the nameplate capacity  *)
(* of the site, and its total over the sites (one hour of the time axis).  *)
(***************************************************************************)
\* nameplate capacities of the generator sites, MW
NameplateCapacities == {Zero} \cup SiteCapacities

\* wind sites: wind components, surface pressure and capacity of each
WindSiteValues == DatasetWinds \X Pressures \X NameplateCapacities

\* solar sites: radiation, temperature and capacity of each
SolarSiteValues == Radiations \X SolarTemperatures \X NameplateCapacities

\* era5_by_wind_sites with its "capacity" variable
Era5ByWindSites(s) ==
    [u100 |-> Field([i \in DOMAIN s |-> s[i][1][1]]),
     v100 |-> Field([i \in DOMAIN s |-> s[i][1][2]]),
     sp |-> Field([i \in DOMAIN s |-> s[i][2]]),
     t2 |-> Field([i \in DOMAIN s |-> Int2Rat(280)]),
     capacity |-> Field([i \in DOMAIN s |-> s[i][3]])]

\* era5_by_solar_sites with its "capacity" variable
Era5BySolarSites(s) ==
    [ssrd |-> Field([i \in DOMAIN s |-> s[i][1]]),
     t2 |-> Field([i \in DOMAIN s |-> s[i][2]]),
     capacity |-> Field([i \in DOMAIN s |-> s[i][3]])]

\* da.sum("site")
SumSite(da) == SeqSum(da.data)

InitSites ==
    /\ pc = "ready"
    /\ \E n \in 1..MaxSites :
         \/ \E s \in [1..n -> WindSiteValues] :
              args = [fn |-> "wind_production",
                      era5_by_wind_sites |-> Era5ByWindSites(s)]
         \/ \E s \in [1..n -> SolarSiteValues] :
              args = [fn |-> "solar_production",
                      era5_by_solar_sites |-> Era5BySolarSites(s)]
    /\ locals = NoLocals
    /\ ret = NoValue

\* wind_production = calculate_wind_production(...); wind_production.sum("site")
WindSitesCell ==
    /\ pc = "ready"
    /\ args.fn = "wind_production"
    /\ LET e == args.era5_by_wind_sites
           wind_production ==
               calculate_wind_production(e.u100, e.v100, e.sp, e.t2, e.capacity)
       IN  /\ locals' = [wind_production |-> wind_production]
           /\ ret' = SumSite(wind_production)
    /\ pc' = "returned"
    /\ UNCHANGED args

\* solar_production = calculate_solar_production(...); solar_production.sum("site")
SolarSitesCell ==
    /\ pc = "ready"
    /\ args.fn = "solar_production"
    /\ LET e == args.era5_by_solar_sites
           solar_production ==
               calculate_solar_production(e.ssrd, e.t2, e.capacity,
                                          Scalar(Rat(20, 100)), Scalar(Rat(-4, 1000)))
       IN  /\ locals' = [solar_production |-> solar_production]
           /\ ret' = SumSite(solar_production)
    /\ pc' = "returned"
    /\ UNCHANGED args

NextSites == WindSitesCell \/ SolarSitesCell

SpecSites == InitSites /\ [][NextSites]_vars

\* whether the field whole is, at every site, the capacity c of the site
\* times the field unit
IsCapacityTimes(whole, c, unit) ==
    /\ Len(whole.data) = Len(c.data)
    /\ \A i \in DOMAIN c.data : whole.data[i] = RMul(c.data[i], unit.data[i])

\* the sum over the sites of capacity times unit production
RECURSIVE WeightedSum(_, _)
WeightedSum(c, unit) ==
    IF c = <<>> THEN Zero
    ELSE RAdd(RMul(Head(c), Head(unit)), WeightedSum(Tail(c), Tail(unit)))

\* C18: at every site, wind production with the capacity field c of the
\* sites is c times wind production with capacity 1 on the same weather,
\* with and without the density correction and also for the negated field;
\* solar production with a capacity field c >= 0 is c times solar production
\* with capacity 1; the total of either over the sites is the sum over the
\* sites of capacity times unit production.
C18_CapacityWeighted ==
    /\ (pc = "returned" /\ args.fn = "wind_production") =>
          LET e == args.era5_by_wind_sites
              minus == FMul(Scalar(Int2Rat(-1)), e.capacity)
              unit == calculate_wind_production(e.u100, e.v100, e.sp, e.t2,
                                                Scalar(One))
              bare == calculate_wind_production(e.u100, e.v100, None, None,
                                                Scalar(One))
          IN  /\ IsCapacityTimes(locals.wind_production, e.capacity, unit)
              /\ IsCapacityTimes(calculate_wind_production(e.u100, e.v100,
                                     e.sp, e.t2, minus), minus, unit)
              /\ IsCapacityTimes(calculate_wind_production(e.u100, e.v100,
                                     None, None, e.capacity), e.capacity, bare)
              /\ IsCapacityTimes(calculate_wind_production(e.u100, e.v100,
                                     None, None, minus), minus, bare)
              /\ ret = WeightedSum(e.capacity.data, unit.data)
    /\ (pc = "returned" /\ args.fn = "solar_production") =>
          LET e == args.era5_by_solar_sites
              unit == calculate_solar_production(e.ssrd, e.t2, Scalar(One),
                          Scalar(Rat(20, 100)), Scalar(Rat(-4, 1000)))
          IN  (\A i \in DOMAIN e.capacity.data : RGe(e.capacity.data[i], Zero)) =>
                 /\ IsCapacityTimes(locals.solar_production, e.capacity, unit)
                 /\ ret = WeightedSum(e.capacity.data, unit.data)

\* two wind sites of capacity 1/2 MW and 2 MW, the first on the cubic ramp
\* (7.5 m/s) and the second at rated speed (15 m/s), have produced 1/2 and
\* 2 times the unit production, a positive total
C18_Witness ==
    /\ pc = "returned" /\ args.fn = "wind_production"
    /\ args.era5_by_wind_sites.capacity = Field(<< Rat(1, 2), Int2Rat(2) >>)
    /\ args.era5_by_wind_sites.u100 = Field(<< Rat(9, 2), Int2Rat(-9) >>)
    /\ RLt(Zero, locals.wind_production.data[1])
    /\ RLt(locals.wind_production.data[1], locals.wind_production.data[2])
    /\ ret = RAdd(locals.wind_production.data[1], locals.wind_production.data[2])

(***************************************************************************)
(* The climatology cells of the notebooks: the daily series restricted to  *)
(* CLIMATE_EPOCH, grouped by "time.dayofyear", reduced by mean and by std  *)
(* over "time".                                                            *)
(***************************************************************************)
\* slice(start, stop) of dates
Slice(start, stop) == [start |-> start, stop |-> stop]

CLIMATE_EPOCH == Slice(Timestamp(1975, 1, 1, 0), Timestamp(2020, 12, 31, 0))

\* whether the date of a is not after the date of b
DateLe(a, b) ==
    \/ a.y < b.y
    \/ a.y = b.y /\ a.m < b.m
    \/ a.y = b.y /\ a.m = b.m /\ a.d <= b.d

\* the subsequence of q at the indices of idx
RECURSIVE SubSeqAt(_, _, _)
SubSeqAt(q, idx, i) ==
    IF i > Len(q) THEN <<>>
    ELSE (IF i \in idx THEN <<q[i]>> ELSE <<>>) \o SubSeqAt(q, idx, i + 1)

\* the samples of the stop date are left out
SelTimeExclusiveStop(da, sl) ==
    LET idx == {i \in DOMAIN da.time :
                   DateLe(sl.start, da.time[i]) /\ DateLe(da.time[i], sl.stop)
                   /\ ~DateLe(sl.stop, da.time[i])}
    IN  TimeArray(SubSeqAt(da.time, idx, 1), SubSeqAt(da.data, idx, 1), da.attrs)

\* da.sel(time=slice(start, stop)): label based, both ends included, every
\* hour of the stop date included
SelTime(da, sl) ==
    LET idx == {i \in DOMAIN da.time :
                   DateLe(sl.start, da.time[i]) /\ DateLe(da.time[i], sl.stop)}
    IN  TimeArray(SubSeqAt(da.time, idx, 1), SubSeqAt(da.data, idx, 1), da.attrs)

\* the number of days of year y before month m
RECURSIVE DaysBeforeMonth(_, _)
DaysBeforeMonth(y, m) ==
    IF m = 1 THEN 0 ELSE DaysBeforeMonth(y, m - 1) + DaysInMonth(y, m - 1)

\* the calendar day: 29 February is day 366 and the days after it in a leap
\* year are numbered as in the other years
DayOfYearCalendar(t) ==
    LET n == DaysBeforeMonth(t.y, t.m) + t.d
    IN  IF ~IsLeapYear(t.y) \/ n < 60 THEN n
        ELSE IF n = 60 THEN 366
        ELSE n - 1

\* time.dayofyear: the ordinal day of the year, 1 for 1 January
DayOfYear(t) == DaysBeforeMonth(t.y, t.m) + t.d

\* the groups of da.groupby("time.dayofyear"): the distinct days of year in
\* increasing order, and the samples of each
GroupByDayOfYear(da) ==
    LET days == {DayOfYear(da.time[i]) : i \in DOMAIN da.time}
        label == [k \in 1..Cardinality(days) |-> KthOf(days, k)]
    IN  [dayofyear |-> label,
         members |-> [k \in DOMAIN label |->
                        {i \in DOMAIN da.time : DayOfYear(da.time[i]) = label[k]}]]

\* the mean of the values of data at idx
MeanAt(data, idx) == RDiv(SumAt(data, idx, 1), Int2Rat(Cardinality(idx)))

\* the mean of the squared deviations from the mean
VarAt(data, idx) ==
    LET mean == MeanAt(data, idx)
        dev2 == [i \in DOMAIN data |->
                    RMul(RSub(data[i], mean), RSub(data[i], mean))]
    IN  MeanAt(dev2, idx)

\* the variance is returned instead of its root
StdAtNoRoot(data, idx) == VarAt(data, idx)

\* the reduction of one group by .std(dim="time"), ddof = 0
StdAt(data, idx) == RSqrt(VarAt(data, idx))

\* .groupby("time.dayofyear").mean(dim="time")
GroupMean(da) ==
    LET g == GroupByDayOfYear(da)
    IN  [dayofyear |-> g.dayofyear,
         data |-> [k \in DOMAIN g.dayofyear |-> MeanAt(da.data, g.members[k])]]

\* .groupby("time.dayofyear").std(dim="time")
GroupStd(da) ==
    LET g == GroupByDayOfYear(da)
    IN  [dayofyear |-> g.dayofyear,
         data |-> [k \in DOMAIN g.dayofyear |-> StdAt(da.data, g.members[k])]]

\* the days a daily series may hold a sample of, in time order: the days
\* next to both ends of the epoch, 1 January of two years of the epoch,
\* 1 March of a year without and 29 February and 1 March of a year with a
\* leap day; no day of the year has more than two samples in the epoch
ClimateGrid ==
    << Timestamp(1974, 12, 31, 0), Timestamp(1975, 1, 1, 0),
       Timestamp(2019, 1, 1, 0), Timestamp(2019, 3, 1, 0),
       Timestamp(2020, 2, 29, 0), Timestamp(2020, 3, 1, 0),
       Timestamp(2020, 12, 31, 0), Timestamp(2021, 1, 1, 0) >>

\* daily values
ClimateValues == {Zero, One, Int2Rat(3)}

\* the daily series holding the values data at the days of the grid picked
\* by S
DailySeries(S, data) ==
    TimeArray([k \in 1..Cardinality(S) |-> ClimateGrid[KthOf(S, k)]], data,
              NoAttrs)

\* the series covers part of the epoch
InitClimatology ==
    /\ pc = "ready"
    /\ \E S \in SUBSET DOMAIN ClimateGrid :
         /\ Cardinality(S) <= MaxSamples
         /\ \E i \in S : ClimateGrid[i].y \in 1975..2020
         /\ \E data \in [1..Cardinality(S) -> ClimateValues] :
              args = [fn |-> "climatology", daily |-> DailySeries(S, data)]
    /\ locals = NoLocals
    /\ ret = NoValue

\* hdd_daily_temp = hdd.sel(time=CLIMATE_EPOCH); its grouped mean and std
ClimatologyCell ==
    /\ pc = "ready"
    /\ args.fn = "climatology"
    /\ LET daily_epoch == SelTime(args.daily, CLIMATE_EPOCH)
       IN  /\ locals' = [daily_epoch |-> daily_epoch,
                         groups |-> GroupByDayOfYear(daily_epoch)]
           /\ ret' = [climatology_mean |-> GroupMean(daily_epoch),
                      climatology_std |-> GroupStd(daily_epoch)]
    /\ pc' = "returned"
    /\ UNCHANGED args

NextClimatology == ClimatologyCell

SpecClimatology == InitClimatology /\ [][NextClimatology]_vars

(***************************************************************************)
(* Properties of the climatology.                                          *)
(***************************************************************************)
ClimatologyReturned == pc = "returned" /\ args.fn = "climatology"

\* the date as the number yyyymmdd
DateNumber(t) == t.y * 10000 + t.m * 100 + t.d

\* the samples of the input whose date lies in the documented epoch
EpochSamples ==
    {i \in DOMAIN args.daily.time :
        DateNumber(args.daily.time[i]) \in 19750101..20201231}

\* the position of the date of t in its calendar year: the number of dates
\* of the year that are not after it
Ordinal(t) ==
    Cardinality({md \in (1..12) \X (1..31) :
                    /\ md[2] <= DaysInMonth(t.y, md[1])
                    /\ md[1] < t.m \/ (md[1] = t.m /\ md[2] <= t.d)})

IsFeb29(t) == t.m = 2 /\ t.d = 29

GroupLabels == DOMAIN locals.groups.dayofyear

\* C12: the climatology is computed from exactly the samples dated
\* 1975-01-01 through 2020-12-31, both dates included, each of them in
\* exactly one day-of-year group; mean and std have one value per group;
\* the mean of a group of one sample is the value of the sample and its
\* standard deviation is 0.
C12_EpochClimatology ==
    ClimatologyReturned =>
        /\ locals.daily_epoch.time =
              SubSeqAt(args.daily.time, EpochSamples, 1)
        /\ locals.daily_epoch.data =
              SubSeqAt(args.daily.data, EpochSamples, 1)
        /\ \A i \in DOMAIN locals.daily_epoch.time :
              Cardinality({k \in GroupLabels : i \in locals.groups.members[k]}) = 1
        /\ ret.climatology_mean.dayofyear = locals.groups.dayofyear
        /\ ret.climatology_std.dayofyear = locals.groups.dayofyear
        /\ \A k \in GroupLabels :
              \A i \in locals.groups.members[k] :
                 locals.groups.members[k] = {i} =>
                    /\ ret.climatology_mean.data[k] = locals.daily_epoch.data[i]
                    /\ ret.climatology_std.data[k] = Zero

\* of the samples 1974-12-31, 1975-01-01 and 2020-12-31 with the values
\* 3, 1 and 3 the first is left out; the groups are the days 1 and 366 with
\* the means 1 and 3 and the standard deviation 0
C12_Witness ==
    /\ ClimatologyReturned
    /\ args.daily.time = << Timestamp(1974, 12, 31, 0), Timestamp(1975, 1, 1, 0),
                            Timestamp(2020, 12, 31, 0) >>
    /\ args.daily.data = << Int2Rat(3), One, Int2Rat(3) >>
    /\ ret.climatology_mean = [dayofyear |-> <<1, 366>>,
                               data |-> << One, Int2Rat(3) >>]
    /\ ret.climatology_std = [dayofyear |-> <<1, 366>>, data |-> << Zero, Zero >>]

\* C13: no day-of-year group holds both a sample dated 29 February and a
\* sample of any other calendar date.
C13_LeapDayOwnGroup ==
    ClimatologyReturned =>
        \A k \in GroupLabels :
           \A i, j \in locals.groups.members[k] :
              IsFeb29(locals.daily_epoch.time[i]) =>
                 IsFeb29(locals.daily_epoch.time[j])

\* C13 as the grouping is computed: the label of the group of a sample is
\* the position of its date in its calendar year, so two samples share a
\* group exactly if their positions are equal; a sample dated 29 February
\* is in group 60, the group of 1 March of the years without a leap day,
\* and the only group fed by leap years alone is 366 (31 December).
C13_OrdinalGroups ==
    ClimatologyReturned =>
        /\ \A k \in GroupLabels :
              /\ locals.groups.members[k] # {}
              /\ \A i \in DOMAIN locals.daily_epoch.time :
                    i \in locals.groups.members[k]
                    <=> Ordinal(locals.daily_epoch.time[i])
                           = locals.groups.dayofyear[k]
        /\ \A k \in GroupLabels :
              \A i \in locals.groups.members[k] :
                 LET t == locals.daily_epoch.time[i]
                 IN  /\ IsFeb29(t) => locals.groups.dayofyear[k] = 60
                     /\ (t.m = 3 /\ t.d = 1 /\ ~IsLeapYear(t.y)) =>
                           locals.groups.dayofyear[k] = 60
                     /\ locals.groups.dayofyear[k] = 366 =>
                           (IsLeapYear(t.y) /\ t.m = 12 /\ t.d = 31)

\* the samples 2019-03-01 and 2020-02-29 with the values 0 and 3 are the
\* one group 60, of mean 3/2
C13_Witness ==
    /\ ClimatologyReturned
    /\ locals.daily_epoch.time =
          << Timestamp(2019, 3, 1, 0), Timestamp(2020, 2, 29, 0) >>
    /\ locals.daily_epoch.data = << Zero, Int2Rat(3) >>
    /\ locals.groups.dayofyear = << 60 >>
    /\ locals.groups.members[1] = {1, 2}
    /\ ret.climatology_mean.data = << Rat(3, 2) >>

\* the sum of the squared deviations of the samples of group k from their
\* mean
SquaredDeviations(k) ==
    LET idx == locals.groups.members[k]
        mean == RDiv(SumAt(locals.daily_epoch.data, idx, 1),
                     Int2Rat(Cardinality(idx)))
    IN  SumAt([i \in DOMAIN locals.daily_epoch.data |->
                  RMul(RSub(locals.daily_epoch.data[i], mean),
                       RSub(locals.daily_epoch.data[i], mean))], idx, 1)

\* C14: the spread of every group of n >= 2 samples is the sample standard
\* deviation: it is >= 0 and its square times n - 1 is the sum of the
\* squared deviations from the group mean.
C14_SampleStd ==
    ClimatologyReturned =>
        \A k \in GroupLabels :
           LET n == Cardinality(locals.groups.members[k])
               s == ret.climatology_std.data[k]
           IN  n >= 2 =>
                  /\ RGe(s, Zero)
                  /\ RMul(RMul(s, s), Int2Rat(n - 1)) = SquaredDeviations(k)

\* C14 as the spread is computed: the population standard deviation of the
\* n samples of the group; it is >= 0 and its square times n is the sum of
\* the squared deviations from the group mean.
C14_PopulationStd ==
    ClimatologyReturned =>
        \A k \in GroupLabels :
           LET n == Cardinality(locals.groups.members[k])
               s == ret.climatology_std.data[k]
           IN  /\ RGe(s, Zero)
               /\ RMul(RMul(s, s), Int2Rat(n)) = SquaredDeviations(k)

\* the samples 1975-01-01 and 2019-01-01 with the values 0 and 1 are the
\* group of day 1, of spread 1/2 (the sample standard deviation is the root
\* of 1/2)
C14_Witness ==
    /\ ClimatologyReturned
    /\ locals.daily_epoch.time =
          << Timestamp(1975, 1, 1, 0), Timestamp(2019, 1, 1, 0) >>
    /\ locals.daily_epoch.data = << Zero, One >>
    /\ ret.climatology_std = [dayofyear |-> << 1 >>, data |-> << Rat(1, 2) >>]

(***************************************************************************)
(* The smoothing of the notebooks: .rolling(dim=smooth_factor).mean() along *)
(* the day-of-year or the time axis of a series.                           *)
(***************************************************************************)
\* the largest smoothing window of the model (the notebooks: 1 to 14, 4 by
\* default)
MaxWindow == 4

\* the window of position i: the last `window` positions up to i
WindowAt(i, window) == {j \in (i - window + 1)..i : j >= 1}

\* a window that is not full yet is averaged over the values it has
RollingMeanMinPeriods1(data, window) ==
    [i \in DOMAIN data |->
       IF \E j \in WindowAt(i, window) : IsNaN(data[j]) THEN NaN
       ELSE MeanAt(data, WindowAt(i, window))]

\* rolling(dim=window).mean(): trailing window, min_periods = window, so a
\* position with fewer than `window` values in its window, or with a
\* missing value in it, is missing
RollingMean(data, window) ==
    [i \in DOMAIN data |->
       IF i < window \/ \E j \in WindowAt(i, window) : IsNaN(data[j])
       THEN NaN
       ELSE MeanAt(data, WindowAt(i, window))]

\* values of a series, and a missing value
RollValues == {Zero, One, Int2Rat(3), NaN}

InitRolling ==
    /\ pc = "ready"
    /\ \E n \in 1..(MaxSamples + 2) :
         \E data \in [1..n -> RollValues], smooth_factor \in 1..MaxWindow :
           args = [fn |-> "rolling_mean", series |-> data,
                   smooth_factor |-> smooth_factor]
    /\ locals = NoLocals
    /\ ret = NoValue

\* series.rolling(dayofyear=smooth_factor).mean()
SmoothCell ==
    /\ pc = "ready"
    /\ args.fn = "rolling_mean"
    /\ ret' = RollingMean(args.series, args.smooth_factor)
    /\ pc' = "returned"
    /\ UNCHANGED <<args, locals>>

NextRolling == SmoothCell

SpecRolling == InitRolling /\ [][NextRolling]_vars

\* C15: the rolling mean with window n has the length of its input; its
\* first n - 1 positions are missing; every later position is the mean of
\* the n most recent values (n times it is their sum), missing if one of
\* them is missing; with n = 1 the result is the input.
C15_TrailingRollingMean ==
    (pc = "returned" /\ args.fn = "rolling_mean") =>
        LET n == args.smooth_factor
            x == args.series
        IN  /\ Len(ret) = Len(x)
            /\ \A i \in DOMAIN x : i <= n - 1 => IsNaN(ret[i])
            /\ \A i \in DOMAIN x : i >= n =>
                  IF \E j \in (i - n + 1)..i : IsNaN(x[j])
                  THEN IsNaN(ret[i])
                  ELSE /\ ~IsNaN(ret[i])
                       /\ RMul(ret[i], Int2Rat(n))
                             = SeqSum(SubSeq(x, i - n + 1, i))
            /\ n = 1 => ret = x

\* the series 0, 1, 3, 0, 1 smoothed with the default window 4: three
\* missing positions, then 4/4 and 5/4
C15_Witness ==
    /\ pc = "returned" /\ args.fn = "rolling_mean"
    /\ args.smooth_factor = 4
    /\ args.series = << Zero, One, Int2Rat(3), Zero, One >>
    /\ ret = << NaN, NaN, NaN, One, Rat(5, 4) >>

(***************************************************************************)
(* The notebooks event, demand and production: the cell that imports from  *)
(* the energy module, then the first cell that uses what it imported: the  *)
(* time series at the metro area picked in the dropdown (event, demand),   *)
(* the production of the dataset (production).  A cell runs only after the *)
(* cells it depends on have completed.                                     *)
(***************************************************************************)
\* the names the energy module defines at its top level
EnergyNames ==
    { "np", "xr", "TEXAS_METROS", "TEXAS_BBOX", "CLIMATE_EPOCH",
      "calculate_heating_degree_days", "calculate_solar_production",
      "calculate_wind_speed", "calculate_wind_production",
      "calculate_renewable_production" }

\* `from energy import ...` of every notebook, in the order written
ImportList(notebook) ==
    CASE notebook = "event" -> << "TEXAS_BBOX", "TEXAS_METROS" >>
      [] notebook = "demand" ->
            << "CLIMATE_EPOCH", "TEXAS_METROS", "TEXAS_BBOX",
               "calculate_heating_degree" >>
      [] notebook = "production" ->
            << "CLIMATE_EPOCH", "TEXAS_BBOX", "TEXAS_METROS",
               "calculate_renewable_production", "calculate_solar_production",
               "calculate_wind_production" >>

\* from module import names: the first name the module does not define
\* raises ImportError, otherwise all names are bound
ImportFrom(defined, names) ==
    LET missing == {k \in DOMAIN names : names[k] \notin defined}
    IN  IF missing = {} THEN Returned(Range(names))
        ELSE Raised("ImportError", names[KthOf(missing, 1)])

\* the entry of one metro area: latitude, and longitude in degrees east
Metro(lat, west) == [lat |-> lat, lon |-> RSub(Int2Rat(360), west)]

TEXAS_METROS ==
    "Dallas-Fort Worth-Arlington" :> Metro(Rat(327767, 10000), Rat(967970, 10000))
    @@ "Houston-The Woodlands-Sugar Land" :> Metro(Rat(297604, 10000), Rat(953698, 10000))
    @@ "San Antonio-New Braunfels" :> Metro(Rat(294241, 10000), Rat(984936, 10000))
    @@ "Austin-Round Rock-Georgetown" :> Metro(Rat(302672, 10000), Rat(977431, 10000))
    @@ "El Paso" :> Metro(Rat(317619, 10000), Rat(1064850, 10000))
    @@ "McAllen-Edinburg-Mission" :> Metro(Rat(262034, 10000), Rat(982300, 10000))
    @@ "Corpus Christi" :> Metro(Rat(278006, 10000), Rat(973964, 10000))
    @@ "Brownsville-Harlingen" :> Metro(Rat(259017, 10000), Rat(974975, 10000))
    @@ "Laredo" :> Metro(Rat(275306, 10000), Rat(994803, 10000))
    @@ "Lubbock" :> Metro(Rat(335779, 10000), Rat(1018552, 10000))

TEXAS_BBOX ==
    [latitude |-> Slice(Int2Rat(37), Int2Rat(25)),
     longitude |-> Slice(Int2Rat(253), Int2Rat(267))]

\* the axes of the dataset: those era5.sel(**TEXAS_BBOX) selects on, and time
Era5Dims == DOMAIN TEXAS_BBOX \cup {"time"}

\* d[key] of a dict
DictGet(d, key) ==
    IF key \in DOMAIN d THEN Returned(d[key]) ELSE Raised("KeyError", key)

\* da.sel(**indexers, method="nearest"): an indexer that names no axis of
\* the array is an error (a KeyError or a ValueError, by the version of the
\* library); otherwise the point of the grid nearest to the indexers is
\* selected, which the model identifies by the indexers
SelNearest(dims, indexers) ==
    IF DOMAIN indexers \subseteq dims THEN Returned(indexers)
    ELSE Raised("KeyError or ValueError", DOMAIN indexers \ dims)

\* event: texas_era5.t2.sel(**dropdown_dict.value, method="nearest")
EventTimeSeries(value) == SelNearest(Era5Dims, value)

\* demand: lat = value['latitude']; lon = value['longitude'];
\* hdd_climatology_mean.sel(latitude=lat, longitude=lon, method="nearest")
DemandTimeSeries(value) ==
    LET lat == DictGet(value, "latitude")
        lon == DictGet(value, "longitude")
    IN  IF lat.raised THEN lat
        ELSE IF lon.raised THEN lon
        ELSE SelNearest(Era5Dims, [latitude |-> lat.value, longitude |-> lon.value])

\* the notebook that is run, with the metro area picked in its dropdown
\* (event, demand) or the dataset it opens (production)
InitNotebooks ==
    /\ pc = "ready"
    /\ \/ \E notebook \in {"event", "demand"}, metro \in DOMAIN TEXAS_METROS :
            args = [fn |-> "notebook", notebook |-> notebook,
                    dropdown_dict |-> metro]
       \/ \E n \in 1..MaxSites :
            \E c \in [1..n -> GridCells] :
              args = [fn |-> "notebook", notebook |-> "production",
                      era5 |-> Era5(c)]
    /\ locals = NoLocals
    /\ ret = NoValue

\* the cell `from energy import ...`
ImportCell ==
    /\ pc = "ready"
    /\ args.fn = "notebook"
    /\ LET r == ImportFrom(EnergyNames, ImportList(args.notebook))
       IN  /\ pc' = IF r.raised THEN "raised" ELSE "imported"
           /\ locals' = [cell |-> "import",
                         globals |-> IF r.raised THEN {} ELSE r.value]
           /\ ret' = IF r.raised THEN r.value ELSE NoValue
    /\ UNCHANGED args

\* the cell that selects the time series at the metro area of the dropdown
TimeSeriesCell ==
    /\ pc = "imported"
    /\ args.notebook \in {"event", "demand"}
    /\ LET value == TEXAS_METROS[args.dropdown_dict]
           r == IF args.notebook = "event" THEN EventTimeSeries(value)
                ELSE DemandTimeSeries(value)
       IN  /\ pc' = IF r.raised THEN "raised" ELSE "returned"
           /\ ret' = r.value
    /\ locals' = [locals EXCEPT !.cell = "time series"]
    /\ UNCHANGED args

\* the cell power_hour = calculate_renewable_production(era5)
PowerHourCell ==
    /\ pc = "imported"
    /\ args.notebook = "production"
    /\ LET r == calculate_renewable_production(args.era5)
       IN  /\ args' = [args EXCEPT !.era5 = r.ds]
           /\ ret' = r.return
    /\ locals' = [locals EXCEPT !.cell = "power_hour"]
    /\ pc' = "returned"

NextNotebooks == ImportCell \/ TimeSeriesCell \/ PowerHourCell

SpecNotebooks == InitNotebooks /\ [][NextNotebooks]_vars

\* C19: the import cell of every notebook completes, binding every name the
\* notebook imports from the energy module: no notebook is stopped by an
\* ImportError, and the heating-degree function the demand notebook imports
\* is a name the energy module defines.
C19_ImportsResolve ==
    (args.fn = "notebook" /\ pc # "ready") =>
        /\ ~(pc = "raised" /\ locals.cell = "import")
        /\ Range(ImportList(args.notebook)) \subseteq locals.globals

\* C20: for the metro area picked in the dropdown, the cell that selects
\* its time series completes: the keys of the entry of the metro table are
\* the keys the notebook reads and names of axes of the dataset.
C20_MetroKeysAreAxes ==
    (args.fn = "notebook" /\ pc \in {"returned", "raised"}
        /\ args.notebook \in {"event", "demand"}
        /\ locals.cell = "time series") =>
        /\ pc = "returned"
        /\ DOMAIN TEXAS_METROS[args.dropdown_dict] \subseteq Era5Dims
        /\ DOMAIN TEXAS_BBOX \subseteq DOMAIN TEXAS_METROS[args.dropdown_dict]

(***************************************************************************)
(* The program as a whole: one call of a function of the library, or one   *)
(* run of the cells of a notebook.                                         *)
(***************************************************************************)
Init ==
    \/ InitHdd \/ InitSolar \/ InitWind \/ InitRenewable
    \/ InitSites \/ InitClimatology \/ InitRolling \/ InitNotebooks

Next ==
    \/ NextHdd \/ NextSolar \/ NextWind \/ NextRenewable
    \/ NextSites \/ NextClimatology \/ NextRolling \/ NextNotebooks

Spec == Init /\ [][Next]_vars

=============================================================================
